---------------------------- MODULE Spec2Model ----------------------------
(***************************************************************************)
(* A model of the HabitPet food database tools:                            *)
(*   FoodDatabase/habitpet_extractor.py      (Matcher, Classifier,         *)
(*                                            extraction pass)             *)
(*   FoodDatabase/assign_usda_categories.py  (category by identifier,      *)
(*                                            merge, dedup, sort)          *)
(* Python str values are TLA+ strings; TLC evaluates Len, \o, SubSeq and   *)
(* Tail on them.  Python None is the empty set and an Optional value x is  *)
(* {x}.  A float score is the exact rational <<numerator, denominator>>    *)
(* in lowest terms.                                                        *)
(***************************************************************************)
EXTENDS Integers, Sequences, FiniteSets, TLC

VARIABLES
    pc,                 \* position of the running script
    \* habitpet_extractor.py
    whitelist,          \* the vocabulary, in file order
    sr_legacy_data,     \* the source records
    idx,                \* records processed so far by the loop of main()
    description,        \* description of the record / call at hand
    normalized,         \* what normalize_text returned last
    match_result,       \* what match_whitelist_item returned last
    whitelist_matches,  \* whitelist_item -> (food_item, score, description)
    matched_foods,      \* the output items
    whitelist_item,     \* second argument of the map_category call at hand
    category,           \* what map_category returned last
    \* assign_usda_categories.py
    category_data, food_data, fndds_foods,      \* rows of the lookup files
    categoryMap, categoryByFdcId, fndds_category_by_fdc_id,
    fndds_added, fndds_manual,
    local_foods, fndds_added_categorized, fndds_manual_categorized,
    all_foods, seen_keys, master_foods,
    pos                 \* records of all_foods the dedup loop has consumed

matchVars == <<whitelist, description, normalized, match_result>>
extractVars == <<sr_legacy_data, idx, whitelist_matches, matched_foods>>
classifyVars == <<whitelist_item, category>>
assignVars == <<category_data, food_data, fndds_foods, categoryMap,
                categoryByFdcId, fndds_category_by_fdc_id, fndds_added,
                fndds_manual>>
mergeVars == <<local_foods, fndds_added_categorized, fndds_manual_categorized,
               all_foods, seen_keys, master_foods, pos>>
vars == <<pc, matchVars, extractVars, classifyVars, assignVars, mergeVars>>

-----------------------------------------------------------------------------
(* Bounds of the model *)

\* longest generated description handed to the Matcher
MaxDescLen == 3
\* longest generated vocabulary
MaxVocab == 2

-----------------------------------------------------------------------------
(* Python str primitives *)

UPPER == "ABCDEFGHIJKLMNOPQRSTUVWXYZ"
LOWER == "abcdefghijklmnopqrstuvwxyz"
DIGITS == "0123456789"
\* code points 32..95 and 97..126 in order, so that the position gives the
\* code point (96, the backquote, cannot be written in a TLA+ string)
ASCII_LO == " !\"#$%&'()*+,-./0123456789:;<=>?@ABCDEFGHIJKLMNOPQRSTUVWXYZ[\\]^_"
ASCII_HI == "abcdefghijklmnopqrstuvwxyz{|}~"

Char(s, i) == SubSeq(s, i, i)

IndexOf(c, s) ==
    IF \E i \in 1..Len(s) : Char(s, i) = c
    THEN CHOOSE i \in 1..Len(s) : Char(s, i) = c
    ELSE 0

\* the characters of s
CharsOf(s) == {Char(s, i) : i \in 1..Len(s)}

\* code point of every printable ASCII character but the backquote
CodePoints ==
    [c \in CharsOf(ASCII_LO) \cup CharsOf(ASCII_HI) |->
        IF IndexOf(c, ASCII_LO) > 0 THEN IndexOf(c, ASCII_LO) + 31
        ELSE IndexOf(c, ASCII_HI) + 96]

Ord(c) == CodePoints[c]

WordChars == CharsOf(LOWER \o UPPER \o DIGITS \o "_")

IsSpace(c) == c = " "
IsWordChar(c) == c \in WordChars

\* the lower-case letter of every upper-case letter
LowerOf == [c \in CharsOf(UPPER) |-> Char(LOWER, IndexOf(c, UPPER))]

LowerChar(c) == IF c \in DOMAIN LowerOf THEN LowerOf[c] ELSE c

RECURSIVE Lower(_)
Lower(s) == IF s = "" THEN "" ELSE LowerChar(Char(s, 1)) \o Lower(Tail(s))

RECURSIVE LStrip(_)
LStrip(s) == IF s # "" /\ IsSpace(Char(s, 1)) THEN LStrip(Tail(s)) ELSE s

RECURSIVE RStrip(_)
RStrip(s) ==
    IF s # "" /\ IsSpace(Char(s, Len(s)))
    THEN RStrip(SubSeq(s, 1, Len(s) - 1))
    ELSE s

Strip(s) == RStrip(LStrip(s))

StartsWith(s, prefix) ==
    Len(prefix) <= Len(s) /\ SubSeq(s, 1, Len(prefix)) = prefix

\* Python's  sub in s
Contains(s, sub) ==
    \/ sub = ""
    \/ \E i \in 1..(Len(s) - Len(sub) + 1) : SubSeq(s, i, i + Len(sub) - 1) = sub

\* s1 < s2 in Python: lexicographic by code point
RECURSIVE StrLess(_, _)
StrLess(s1, s2) ==
    IF s2 = "" THEN FALSE
    ELSE IF s1 = "" THEN TRUE
    ELSE IF Char(s1, 1) = Char(s2, 1) THEN StrLess(Tail(s1), Tail(s2))
    ELSE Ord(Char(s1, 1)) < Ord(Char(s2, 1))

-----------------------------------------------------------------------------
(* Scores: Python floats as exact rationals *)

RECURSIVE GCD(_, _)
GCD(a, b) == IF b = 0 THEN a ELSE GCD(b, a % b)

Rat(n, d) == LET g == GCD(n, d) IN IF g = 0 THEN <<0, 1>> ELSE <<n \div g, d \div g>>

RatLess(p, q) == p[1] * q[2] < q[1] * p[2]
RatLeq(p, q) == p[1] * q[2] <= q[1] * p[2]
RatMax(p, q) == IF RatLess(p, q) THEN q ELSE p
RatMin(p, q) == IF RatLess(q, p) THEN q ELSE p

-----------------------------------------------------------------------------
(* normalize_text *)

RECURSIVE PunctToSpace(_)
PunctToSpace(s) ==
    IF s = "" THEN ""
    ELSE (IF IsWordChar(Char(s, 1)) \/ IsSpace(Char(s, 1)) THEN Char(s, 1) ELSE " ")
         \o PunctToSpace(Tail(s))

normalize_text(text) == Strip(PunctToSpace(Lower(text)))

-----------------------------------------------------------------------------
(* rapidfuzz, as called by match_whitelist_item: fuzz.token_set_ratio,      *)
(* fuzz.partial_ratio, fuzz.token_sort_ratio and process.extractOne         *)

Max2(a, b) == IF a < b THEN b ELSE a

MaxOf(S) == CHOOSE x \in S : \A y \in S : y <= x

\* one row of the longest-common-subsequence table from the row before it:
\* row[j] = max(prev[j], row[j-1], prev[j-1] + 1 if c = t[j]), unrolled over j
\* (SubSeq makes the row a tuple of numbers)
LCSRow(prev, c, t) ==
    SubSeq([j \in 1..Len(t) |->
              MaxOf({prev[k] : k \in 1..j}
                    \cup {(IF k = 1 THEN 0 ELSE prev[k - 1]) + 1 :
                            k \in {i \in 1..j : Char(t, i) = c}})],
           1, Len(t))

\* the last row of the table; every row has one entry per character of t
\* (the test on Len(prev) makes each row a value before the next is built)
RECURSIVE LCSRows(_, _, _)
LCSRows(s, t, prev) ==
    IF s = "" \/ Len(prev) # Len(t) THEN prev
    ELSE LCSRows(Tail(s), t, LCSRow(prev, Char(s, 1), t))

LCS(s, t) ==
    IF t = "" THEN 0 ELSE LCSRows(s, t, SubSeq([j \in 1..Len(t) |-> 0], 1, Len(t)))[Len(t)]

\* 100 * (1 - dist / lensum), the normalized Indel similarity
NormSim(dist, lensum) ==
    IF lensum = 0 THEN <<100, 1>> ELSE Rat(100 * (lensum - dist), lensum)

\* fuzz.ratio
ratio(s1, s2) ==
    NormSim(Len(s1) + Len(s2) - 2 * LCS(s1, s2), Len(s1) + Len(s2))

TokenEnd(t) ==
    IF \E i \in 1..Len(t) : IsSpace(Char(t, i))
    THEN CHOOSE i \in 1..Len(t) :
            IsSpace(Char(t, i)) /\ \A k \in 1..(i - 1) : ~IsSpace(Char(t, k))
    ELSE Len(t) + 1

\* str.split(): the whitespace-separated tokens
RECURSIVE Split(_)
Split(s) ==
    LET t == LStrip(s)
    IN  IF t = "" THEN <<>>
        ELSE <<SubSeq(t, 1, TokenEnd(t) - 1)>> \o Split(SubSeq(t, TokenEnd(t), Len(t)))

RECURSIVE Join(_)
Join(tokens) ==
    IF tokens = <<>> THEN ""
    ELSE IF Len(tokens) = 1 THEN tokens[1]
    ELSE tokens[1] \o " " \o Join(Tail(tokens))

RECURSIVE InsertToken(_, _)
InsertToken(sorted, tok) ==
    IF sorted = <<>> THEN <<tok>>
    ELSE IF StrLess(tok, sorted[1]) THEN <<tok>> \o sorted
    ELSE <<sorted[1]>> \o InsertToken(Tail(sorted), tok)

RECURSIVE SortTokens(_)
SortTokens(tokens) ==
    IF tokens = <<>> THEN <<>>
    ELSE InsertToken(SortTokens(Tail(tokens)), tokens[1])

RECURSIVE Unique(_)
Unique(sorted) ==
    IF Len(sorted) <= 1 THEN sorted
    ELSE IF sorted[1] = sorted[2] THEN Unique(Tail(sorted))
    ELSE <<sorted[1]>> \o Unique(Tail(sorted))

InSeq(x, seq) == \E i \in 1..Len(seq) : seq[i] = x

\* fuzz.token_sort_ratio
token_sort_ratio(s1, s2) ==
    ratio(Join(SortTokens(Split(s1))), Join(SortTokens(Split(s2))))

\* fuzz.token_set_ratio, from the joined token differences and the length
\* of the joined intersection
TokenSetScore(diff_ab_joined, diff_ba_joined, sect_len) ==
    LET ab_len == Len(diff_ab_joined)
        ba_len == Len(diff_ba_joined)
        sep == IF sect_len # 0 THEN 1 ELSE 0
    IN  IF sect_len = 0 THEN ratio(diff_ab_joined, diff_ba_joined)
        ELSE RatMax(NormSim(ab_len + ba_len - 2 * LCS(diff_ab_joined, diff_ba_joined),
                            2 * (sect_len + sep) + ab_len + ba_len),
                    RatMax(NormSim(sep + ab_len, 2 * sect_len + sep + ab_len),
                           NormSim(sep + ba_len, 2 * sect_len + sep + ba_len)))

\* fuzz.token_set_ratio, from the sorted token sets of the two strings
TokenSetOfTokens(tokens_a, tokens_b) ==
    LET InA(x) == InSeq(x, tokens_a)
        InB(x) == InSeq(x, tokens_b)
        NotInA(x) == ~InSeq(x, tokens_a)
        NotInB(x) == ~InSeq(x, tokens_b)
    IN  IF tokens_a = <<>> \/ tokens_b = <<>> THEN <<0, 1>>
        ELSE IF /\ SelectSeq(tokens_a, InB) # <<>>
                /\ \/ SelectSeq(tokens_a, NotInB) = <<>>
                   \/ SelectSeq(tokens_b, NotInA) = <<>>
        THEN <<100, 1>>
        ELSE TokenSetScore(Join(SelectSeq(tokens_a, NotInB)),
                           Join(SelectSeq(tokens_b, NotInA)),
                           Len(Join(SelectSeq(tokens_a, InB))))

\* fuzz.token_set_ratio
token_set_ratio(s1, s2) ==
    TokenSetOfTokens(Unique(SortTokens(Split(s1))), Unique(SortTokens(Split(s2))))

\* the windows of the longer string that partial_ratio aligns the shorter to:
\* the prefixes shorter than the shorter string, the windows of its length,
\* and the suffixes; a window is skipped when its last (for a suffix, first)
\* character does not occur in the shorter string
PartialWindows(shorter, longer) ==
    {SubSeq(longer, 1, i) :
        i \in {k \in 1..(Len(shorter) - 1) : IndexOf(Char(longer, k), shorter) > 0}}
    \cup {SubSeq(longer, i + 1, i + Len(shorter)) :
            i \in {k \in 0..(Len(longer) - Len(shorter) - 1) :
                     IndexOf(Char(longer, k + Len(shorter)), shorter) > 0}}
    \cup {SubSeq(longer, i + 1, Len(longer)) :
            i \in {k \in (Len(longer) - Len(shorter))..(Len(longer) - 1) :
                     IndexOf(Char(longer, k + 1), shorter) > 0}}

RatMaxOf(S) ==
    IF S = {} THEN <<0, 1>>
    ELSE CHOOSE p \in S : \A q \in S : RatLeq(q, p)

\* fuzz.partial_ratio: the shorter string against the windows of the longer,
\* both ways round when the lengths are equal
partial_ratio(s1, s2) ==
    IF s1 = "" /\ s2 = "" THEN <<100, 1>>
    ELSE RatMaxOf(UNION {{ratio(pair[1], w) : w \in PartialWindows(pair[1], pair[2])} :
                            pair \in {q \in {<<s1, s2>>, <<s2, s1>>} : Len(q[1]) <= Len(q[2])}})

TOKEN_SET == "token_set_ratio"
PARTIAL == "partial_ratio"
TOKEN_SORT == "token_sort_ratio"

Score(scorer, s1, s2) ==
    CASE scorer = TOKEN_SET -> token_set_ratio(s1, s2)
      [] scorer = PARTIAL -> partial_ratio(s1, s2)
      [] scorer = TOKEN_SORT -> token_sort_ratio(s1, s2)

\* score_cutoff=60 of the three extractOne calls
ScoreCutoff == 60

\* Python None
None == {}

\* the first position with the highest score among those that reach the
\* cutoff, 0 when none does
BestIndex(scores) ==
    IF \A i \in 1..Len(scores) : RatLess(scores[i], <<ScoreCutoff, 1>>) THEN 0
    ELSE CHOOSE i \in 1..Len(scores) :
            /\ RatLeq(<<ScoreCutoff, 1>>, scores[i])
            /\ \A k \in 1..Len(scores) : RatLeq(scores[k], scores[i])
            /\ \A k \in 1..(i - 1) : scores[k] # scores[i]

ExtractBest(choices, scores, best) ==
    IF best = 0 THEN None ELSE {<<choices[best], scores[best]>>}

ScoreAll(scorer, query, choices) ==
    SubSeq([i \in 1..Len(choices) |-> Score(scorer, query, choices[i])], 1, Len(choices))

ExtractFromScores(choices, scores) == ExtractBest(choices, scores, BestIndex(scores))

\* process.extractOne(query, choices, scorer=scorer, score_cutoff=60):
\* {<<choice, score>>} for the first choice with the highest score >= 60, or None
extractOne(query, choices, scorer) ==
    ExtractFromScores(choices, ScoreAll(scorer, query, choices))

-----------------------------------------------------------------------------
(* match_whitelist_item *)

\* what a call ends with: a returned value, or an exception
Return(v) == [raised |-> FALSE, value |-> v]
Raise == [raised |-> TRUE, value |-> None]

MinOf(S) == CHOOSE x \in S : \A y \in S : x <= y

\* index at which  for item in whitelist: if <test>: return  stops, given the
\* indices whose item passes the test; 0 when the loop runs through
FirstIndex(hits) == IF hits = {} THEN 0 ELSE MinOf(hits)

\* mutant of ExactMatch: the vocabulary entry is compared as written
ExactMatchRaw(desc_normalized, item) == desc_normalized = item

\* Strategy 1
ExactMatch(desc_normalized, item) == desc_normalized = normalize_text(item)

\* mutant of StartsWithMatch: only the entry may be the longer side
StartsWithOneWay(desc_normalized, item) ==
    StartsWith(normalize_text(item), desc_normalized)

\* Strategy 2
StartsWithMatch(desc_normalized, item) ==
    \/ StartsWith(desc_normalized, normalize_text(item))
    \/ StartsWith(normalize_text(item), desc_normalized)

\* Strategy 3
ContainsMatch(desc_normalized, item) ==
    \/ Contains(desc_normalized, normalize_text(item))
    \/ Contains(normalize_text(item), desc_normalized)

\* mutant of ContainsScore: the score is not capped at 90
ContainsScoreUncapped(desc_normalized, item_normalized) ==
    Rat(Len(item_normalized) * 90, Len(desc_normalized))

\* min(len(item_normalized) / len(desc_normalized) * 90, 90.0); the caller has
\* excluded len(desc_normalized) = 0, where Python raises ZeroDivisionError
ContainsScore(desc_normalized, item_normalized) ==
    IF Len(item_normalized) >= Len(desc_normalized) THEN <<90, 1>>
    ELSE Rat(Len(item_normalized) * 90, Len(desc_normalized))

\* mutant of BetterOf: a later call replaces the earlier one on an equal score
BetterOfOnTie(best_match, m) ==
    IF m # None /\ (\A b \in best_match : \A x \in m : RatLeq(b[2], x[2]))
                /\ (\A x \in m : RatLess(<<0, 1>>, x[2]))
    THEN m ELSE best_match

\* Strategy 4: the three extractOne calls, the later one replacing the earlier
\* only with a strictly higher score
BetterOf(best_match, m) ==
    IF m # None /\ (\A b \in best_match : \A x \in m : RatLess(b[2], x[2]))
                /\ (\A x \in m : RatLess(<<0, 1>>, x[2]))
    THEN m ELSE best_match

\* the scorers in the order the code tries them
Scorers == <<TOKEN_SET, PARTIAL, TOKEN_SORT>>

RECURSIVE FuzzyFrom(_, _, _, _)
FuzzyFrom(desc_normalized, choices, k, best_match) ==
    IF k > Len(Scorers) THEN best_match
    ELSE FuzzyFrom(desc_normalized, choices, k + 1,
                   BetterOf(best_match, extractOne(desc_normalized, choices, Scorers[k])))

FuzzyMatch(desc_normalized, choices) == FuzzyFrom(desc_normalized, choices, 1, None)

\* mutant of match_whitelist_item: one loop that tries the three strategies
\* on each entry in turn
match_whitelist_item_one_loop(text, choices) ==
    LET desc_normalized == normalize_text(text)
        i == FirstIndex({k \in 1..Len(choices) :
                            \/ ExactMatch(desc_normalized, choices[k])
                            \/ StartsWithMatch(desc_normalized, choices[k])
                            \/ ContainsMatch(desc_normalized, choices[k])})
    IN  IF i = 0 THEN Return(FuzzyMatch(desc_normalized, choices))
        ELSE IF ExactMatch(desc_normalized, choices[i])
        THEN Return({<<choices[i], <<100, 1>>>>})
        ELSE IF StartsWithMatch(desc_normalized, choices[i])
        THEN Return({<<choices[i], <<95, 1>>>>})
        ELSE IF Len(desc_normalized) = 0 THEN Raise
        ELSE Return({<<choices[i],
                       ContainsScore(desc_normalized, normalize_text(choices[i]))>>})

match_whitelist_item(text, choices) ==
    LET desc_normalized == normalize_text(text)
        i1 == FirstIndex({k \in 1..Len(choices) : ExactMatch(desc_normalized, choices[k])})
        i2 == FirstIndex({k \in 1..Len(choices) : StartsWithMatch(desc_normalized, choices[k])})
        i3 == FirstIndex({k \in 1..Len(choices) : ContainsMatch(desc_normalized, choices[k])})
    IN  IF i1 # 0 THEN Return({<<choices[i1], <<100, 1>>>>})
        ELSE IF i2 # 0 THEN Return({<<choices[i2], <<95, 1>>>>})
        ELSE IF i3 # 0
        THEN IF Len(desc_normalized) = 0 THEN Raise
             ELSE Return({<<choices[i3],
                            ContainsScore(desc_normalized, normalize_text(choices[i3]))>>})
        ELSE Return(FuzzyMatch(desc_normalized, choices))

-----------------------------------------------------------------------------
(* Inputs of the Matcher *)

\* characters the generated descriptions are made of
DescAlphabet == {"a", "b", "A", "!"}

RECURSIVE StringsUpTo(_, _)
StringsUpTo(alphabet, n) ==
    IF n = 0 THEN {""}
    ELSE LET shorter == StringsUpTo(alphabet, n - 1)
         IN  shorter \cup {s \o c : s \in shorter, c \in alphabet}

Descriptions ==
    StringsUpTo(DescAlphabet, MaxDescLen)
        \cup {"chicken breast grilled", "grilled chicken breast", "Tomatoes"}

VocabEntries == {"a", "a!", "ab", "b a", "!", "bab"}

SeqsUpTo(S, n) == UNION {[1..k -> S] : k \in 0..n}

Vocabularies ==
    SeqsUpTo(VocabEntries, MaxVocab)
        \cup {<<"chicken">>, <<"b a", "chicken">>, <<"chicken", "grilled">>,
              <<"potatoes", "tomato soup">>}

-----------------------------------------------------------------------------
(* Idle values of the state a specification does not use *)

IdleMatch ==
    /\ whitelist = <<>> /\ description = "" /\ normalized = ""
    /\ match_result = Return(None)
IdleExtract ==
    sr_legacy_data = <<>> /\ idx = 0 /\ whitelist_matches = <<>> /\ matched_foods = <<>>
IdleClassify == whitelist_item = "" /\ category = ""
IdleAssign ==
    /\ category_data = <<>> /\ food_data = <<>> /\ fndds_foods = <<>>
    /\ categoryMap = <<>> /\ categoryByFdcId = <<>> /\ fndds_category_by_fdc_id = <<>>
    /\ fndds_added = <<>> /\ fndds_manual = <<>>
IdleMerge ==
    /\ local_foods = <<>> /\ fndds_added_categorized = <<>>
    /\ fndds_manual_categorized = <<>>
    /\ all_foods = <<>> /\ seen_keys = {} /\ master_foods = <<>> /\ pos = 0

-----------------------------------------------------------------------------
(* SpecMatch: one call of match_whitelist_item on any description and      *)
(* vocabulary of the bounded input sets                                    *)

InitMatch ==
    /\ pc = "call"
    /\ description \in Descriptions
    /\ whitelist \in Vocabularies
    /\ normalized = ""
    /\ match_result = Return(None)
    /\ IdleExtract /\ IdleClassify /\ IdleAssign /\ IdleMerge

CallMatch ==
    /\ pc = "call"
    /\ normalized' = normalize_text(description)
    /\ match_result' = match_whitelist_item(description, whitelist)
    /\ pc' = "returned"
    /\ UNCHANGED <<whitelist, description, extractVars, classifyVars, assignVars, mergeVars>>

NextMatch == CallMatch

SpecMatch == InitMatch /\ [][NextMatch]_vars

-----------------------------------------------------------------------------
(* Claims about the Matcher, checked under SpecMatch *)

\* positions of the vocabulary entries that satisfy each of strategies 1-3
\* for the description of the call at hand
Tier1 == {i \in 1..Len(whitelist) : normalize_text(description) = normalize_text(whitelist[i])}
Tier2 == {i \in 1..Len(whitelist) :
            \/ StartsWith(normalize_text(description), normalize_text(whitelist[i]))
            \/ StartsWith(normalize_text(whitelist[i]), normalize_text(description))}
Tier3 == {i \in 1..Len(whitelist) :
            \/ Contains(normalize_text(description), normalize_text(whitelist[i]))
            \/ Contains(normalize_text(whitelist[i]), normalize_text(description))}

\* C1: if the description normalizes like some vocabulary entry, the call
\* returns the first such entry, in vocabulary order, with confidence 100.
C1_ExactMatchReturnsFirst ==
    (pc = "returned" /\ Tier1 # {})
        => match_result = Return({<<whitelist[MinOf(Tier1)], <<100, 1>>>>})

\* C1 witness: two entries normalize like the description, which is not
\* written like the first of them, and the first was returned with 100.
C1_Witness ==
    /\ pc = "returned"
    /\ Cardinality(Tier1) = 2
    /\ description # whitelist[MinOf(Tier1)]
    /\ whitelist[1] # whitelist[2]
    /\ match_result = Return({<<whitelist[1], <<100, 1>>>>})

\* C2: the ladder short-circuits by tier over the whole vocabulary: the result
\* comes from the lowest tier that any entry satisfies, it is the first entry
\* of that tier in vocabulary order for tiers 1-3, the fuzzy result is returned
\* only when no entry satisfies tiers 1-3, and an input with both an exact and
\* a fuzzy candidate yields the exact one.
C2_LadderShortCircuits ==
    (pc = "returned" /\ ~match_result.raised) =>
        /\ Tier1 # {} =>
              match_result.value = {<<whitelist[MinOf(Tier1)], <<100, 1>>>>}
        /\ (Tier1 = {} /\ Tier2 # {}) =>
              match_result.value = {<<whitelist[MinOf(Tier2)], <<95, 1>>>>}
        /\ (Tier1 = {} /\ Tier2 = {} /\ Tier3 # {}) =>
              /\ \E r \in match_result.value : r[1] = whitelist[MinOf(Tier3)]
              /\ \A r \in match_result.value : RatLeq(r[2], <<90, 1>>)
        /\ (\E r \in match_result.value :
               /\ r[2] \notin {<<100, 1>>, <<95, 1>>}
               /\ \A i \in Tier3 : r[1] # whitelist[i])
              => (Tier1 = {} /\ Tier2 = {} /\ Tier3 = {})
        /\ (Tier1 = {} /\ Tier2 = {} /\ Tier3 = {}) =>
              match_result.value = FuzzyMatch(normalize_text(description), whitelist)

\* C2 witness: the first entry is only a fuzzy candidate (no strategy 1-3
\* holds for it, its token-set score is at least 60), a later entry is an
\* exact match, and the exact match was returned.
C2_Witness ==
    /\ pc = "returned"
    /\ Len(whitelist) = 2
    /\ 1 \notin Tier3 /\ 1 \notin Tier2 /\ 1 \notin Tier1
    /\ extractOne(normalize_text(description), <<whitelist[1]>>, TOKEN_SET) # None
    /\ 2 \in Tier1
    /\ match_result = Return({<<whitelist[2], <<100, 1>>>>})

\* C3 (as claimed): a description that is empty or normalizes to the empty
\* string gets no match, for every vocabulary, and the call does not raise.
C3_BlankDescriptionNoMatch ==
    (pc = "returned" /\ normalize_text(description) = "")
        => match_result = Return(None)

\* C4 (as claimed): "chicken breast grilled" against the vocabulary whose only
\* candidate is "chicken" returns "chicken" with 7/22*90.
C4_SubstringScoreAsClaimed ==
    (pc = "returned" /\ description = "chicken breast grilled"
                     /\ whitelist = <<"chicken">>)
        => match_result = Return({<<"chicken", Rat(7 * 90, 22)>>})

\* "chicken" is in the vocabulary and is the only entry that any of
\* strategies 1-3 accepts
OnlyCandidateIsChicken ==
    /\ \E i \in 1..Len(whitelist) : whitelist[i] = "chicken"
    /\ \A i \in Tier3 : whitelist[i] = "chicken"

\* C4 (amended): "chicken breast grilled" starts with "chicken", so the call
\* returns "chicken" with the prefix confidence 95; the substring confidence
\* 7/22*90 is what "grilled chicken breast" gets, where "chicken" is inside
\* the description and not at its start.
C4_ChickenPrefixScore ==
    (pc = "returned" /\ OnlyCandidateIsChicken) =>
        /\ description = "chicken breast grilled"
              => match_result = Return({<<"chicken", <<95, 1>>>>})
        /\ description = "grilled chicken breast"
              => /\ match_result = Return({<<"chicken", Rat(7 * 90, 22)>>})
                 /\ 22 = Len(normalize_text(description)) /\ 7 = Len("chicken")

\* C4 witness: the claim's call has returned.
C4_Witness ==
    /\ pc = "returned"
    /\ description = "chicken breast grilled"
    /\ whitelist = <<"chicken">>
    /\ match_result = Return({<<"chicken", <<95, 1>>>>})

-----------------------------------------------------------------------------
(* map_category: the keyword lists, in the order of the code *)

PoultryKeywords ==
    {"chicken", "turkey", "poultry"}

MeatKeywords ==
    {"beef", "pork", "meat", "steak", "brisket", "ribeye", "sirloin",
     "sausage", "bacon", "ham", "pepperoni", "salami", "hot dog",
     "bratwurst", "jerky", "gyro", "shawarma", "meatloaf", "lasagna"}

SeafoodKeywords ==
    {"salmon", "tuna", "shrimp", "fish", "cod", "tilapia", "sardines",
     "mackerel", "sushi", "poke", "clam", "crab", "mussels", "calamari",
     "tempura"}

PlantBasedKeywords ==
    {"tofu", "tempeh", "lentils", "chickpeas", "hummus", "falafel",
     "edamame", "beans", "impossible", "beyond", "vegan", "veggie burger",
     "seitan", "soy"}

EggsKeywords ==
    {"egg", "omelette", "scrambled"}

GrainsKeywords ==
    {"rice", "quinoa", "couscous", "farro", "barley", "oatmeal", "oats",
     "granola", "pasta", "spaghetti", "penne", "fettuccine", "macaroni",
     "lasagna", "ravioli", "gnocchi", "noodles", "ramen", "soba", "udon",
     "tortillas", "pita", "naan", "bagel", "bread", "roll", "sourdough"}

VegetablesKeywords ==
    {"broccoli", "cauliflower", "carrots", "celery", "spinach", "kale",
     "lettuce", "greens", "peppers", "tomatoes", "cucumbers", "avocado",
     "onions", "potatoes", "sweet potatoes", "zucchini", "squash",
     "mushrooms", "eggplant", "cabbage", "brussels", "kimchi", "sauerkraut",
     "beans", "peas", "corn", "asparagus", "bok choy", "pickles", "jalapeno",
     "salsa", "guacamole", "coleslaw", "artichokes", "seaweed", "beets",
     "radish", "pumpkin", "turnips"}

FruitsKeywords ==
    {"apple", "banana", "orange", "mandarin", "grapes", "strawberries",
     "blueberries", "raspberries", "blackberries", "mango", "pineapple",
     "watermelon", "cantaloupe", "honeydew", "kiwi", "peaches", "plums",
     "nectarines", "pomegranate", "pears", "cherries", "guava", "papaya",
     "passion fruit", "cranberries", "raisins", "dates", "figs", "lemon",
     "lime", "grapefruit"}

DairyKeywords ==
    {"milk", "cream", "yogurt", "cheese", "cottage", "butter", "margarine",
     "ice cream", "frozen yogurt", "ricotta", "parmesan", "feta",
     "goat cheese", "kefir", "whipped cream"}

BreakfastKeywords ==
    {"pancakes", "waffles", "french toast", "breakfast", "hash browns",
     "chia pudding", "cereal"}

SandwichesKeywords ==
    {"sandwich", "wrap", "burrito", "quesadilla", "tacos", "pita"}

FrozenKeywords ==
    {"frozen", "microwave", "bento", "tv dinner", "heat and eat"}

SnacksKeywords ==
    {"chips", "crackers", "pretzels", "popcorn", "nuts", "almonds",
     "walnuts", "cashews", "pistachios", "peanut butter", "almond butter",
     "rice cakes", "jerky", "fruit snacks", "chocolate", "cookies",
     "brownies", "muffins", "banana bread", "protein bar", "granola bar",
     "trail mix", "edamame snack", "seaweed snacks", "veggie straws"}

DrinksKeywords ==
    {"water", "soda", "coffee", "tea", "latte", "cappuccino", "lemonade",
     "smoothie", "shake", "sports drink", "energy drink", "juice",
     "kombucha", "milkshake", "chai", "matcha"}

DessertsKeywords ==
    {"cake", "cupcakes", "donuts", "pie", "pudding", "sorbet", "cheesecake",
     "tiramisu", "mochi", "churros", "cinnamon rolls", "banana split"}

SaladsKeywords ==
    {"salad", "caesar", "greek", "garden", "cobb", "quinoa salad",
     "lentil salad", "pasta salad", "fruit salad"}

InternationalKeywords ==
    {"pad thai", "pho", "ramen", "bibimbap", "tikka", "masala", "biryani",
     "curry", "gyro", "shawarma", "falafel", "poke bowl", "teriyaki",
     "katsu", "spring rolls", "dumplings", "gyoza", "poutine", "empanada",
     "tamales", "enchiladas", "arepas"}

PizzaKeywords ==
    {"pizza"}

\* any(x in item_lower for x in keywords)
AnyIn(item_lower, keywords) == \E x \in keywords : Contains(item_lower, x)

\* the rules that follow the first two
MapAfterMeat(item_lower) ==
    IF AnyIn(item_lower, SeafoodKeywords) THEN "Protein - Seafood"
    ELSE IF AnyIn(item_lower, PlantBasedKeywords) THEN "Protein - Plant-Based"
    ELSE IF AnyIn(item_lower, EggsKeywords) THEN "Protein - Eggs"
    ELSE IF AnyIn(item_lower, GrainsKeywords) THEN "Grains & Starches"
    ELSE IF AnyIn(item_lower, VegetablesKeywords) THEN "Vegetables"
    ELSE IF AnyIn(item_lower, FruitsKeywords) THEN "Fruits"
    ELSE IF AnyIn(item_lower, DairyKeywords) THEN "Dairy & Alternatives"
    ELSE IF AnyIn(item_lower, BreakfastKeywords) THEN "Breakfast"
    ELSE IF AnyIn(item_lower, SandwichesKeywords) THEN "Sandwiches & Wraps"
    ELSE IF AnyIn(item_lower, FrozenKeywords) THEN "Frozen & Ready Meals"
    ELSE IF AnyIn(item_lower, SnacksKeywords) THEN "Snacks"
    ELSE IF AnyIn(item_lower, DrinksKeywords) THEN "Drinks"
    ELSE IF AnyIn(item_lower, DessertsKeywords) THEN "Desserts"
    ELSE IF AnyIn(item_lower, SaladsKeywords) THEN "Salads"
    ELSE IF AnyIn(item_lower, InternationalKeywords) THEN "International & Ethnic"
    ELSE IF AnyIn(item_lower, PizzaKeywords) THEN "Pizza"
    ELSE "Other"

\* mutant of map_category: the Meat rule is tried before the Poultry rule
map_category_meat_first(desc, item) ==
    LET item_lower == Lower(item)
    IN  IF AnyIn(item_lower, MeatKeywords) THEN "Protein - Meat"
        ELSE IF AnyIn(item_lower, PoultryKeywords) THEN "Protein - Poultry"
        ELSE MapAfterMeat(item_lower)

\* map_category(description, whitelist_item); desc_lower is computed by the
\* code and read by none of its rules
map_category(desc, item) ==
    LET desc_lower == Lower(desc)
        item_lower == Lower(item)
    IN  IF AnyIn(item_lower, PoultryKeywords) THEN "Protein - Poultry"
        ELSE IF AnyIn(item_lower, MeatKeywords) THEN "Protein - Meat"
        ELSE MapAfterMeat(item_lower)

-----------------------------------------------------------------------------
(* SpecClassify: one call of map_category *)

AllKeywords ==
    PoultryKeywords \cup MeatKeywords \cup SeafoodKeywords \cup PlantBasedKeywords
    \cup EggsKeywords \cup GrainsKeywords \cup VegetablesKeywords \cup FruitsKeywords
    \cup DairyKeywords \cup BreakfastKeywords \cup SandwichesKeywords
    \cup FrozenKeywords \cup SnacksKeywords \cup DrinksKeywords \cup DessertsKeywords
    \cup SaladsKeywords \cup InternationalKeywords \cup PizzaKeywords

\* every keyword on its own, and entries that no rule, one rule or several
\* rules accept, some of them not in lower case
ClassifyItems ==
    AllKeywords
    \cup {"", "xyz", "plain", "BEANS", "Turkey Bacon", "turkey bacon", "chicken salad",
          "beans and rice", "veggie pizza", "Greek Yogurt", "apple pie", "vegan omelette",
          "pizza rolls", "cheese pizza", "fruit salad", "iced tea", "PIZZA"}

ClassifyDescriptions == {"", "Chicken and beans, canned", "Water, tap"}

InitClassify ==
    /\ pc = "classify"
    /\ description \in ClassifyDescriptions
    /\ whitelist_item \in ClassifyItems
    /\ category = ""
    /\ whitelist = <<>> /\ normalized = "" /\ match_result = Return(None)
    /\ IdleExtract /\ IdleAssign /\ IdleMerge

CallClassify ==
    /\ pc = "classify"
    /\ category' = map_category(description, whitelist_item)
    /\ pc' = "classified"
    /\ UNCHANGED <<matchVars, extractVars, whitelist_item, assignVars, mergeVars>>

NextClassify == CallClassify

SpecClassify == InitClassify /\ [][NextClassify]_vars

-----------------------------------------------------------------------------
(* Claims about the Classifier, checked under SpecClassify *)

\* the rules in the order the claim lists them
RuleOrder ==
    << <<"Protein - Poultry", PoultryKeywords>>,
       <<"Protein - Meat", MeatKeywords>>,
       <<"Protein - Seafood", SeafoodKeywords>>,
       <<"Protein - Plant-Based", PlantBasedKeywords>>,
       <<"Protein - Eggs", EggsKeywords>>,
       <<"Grains & Starches", GrainsKeywords>>,
       <<"Vegetables", VegetablesKeywords>>,
       <<"Fruits", FruitsKeywords>>,
       <<"Dairy & Alternatives", DairyKeywords>>,
       <<"Breakfast", BreakfastKeywords>>,
       <<"Sandwiches & Wraps", SandwichesKeywords>>,
       <<"Frozen & Ready Meals", FrozenKeywords>>,
       <<"Snacks", SnacksKeywords>>,
       <<"Drinks", DrinksKeywords>>,
       <<"Desserts", DessertsKeywords>>,
       <<"Salads", SaladsKeywords>>,
       <<"International & Ethnic", InternationalKeywords>>,
       <<"Pizza", PizzaKeywords>> >>

\* the rules that fire on the classified text, which is the matched
\* vocabulary entry: some keyword is a substring of it, letter case aside
FiringRules ==
    LET text == Lower(whitelist_item)
    IN  {k \in 1..Len(RuleOrder) : \E x \in RuleOrder[k][2] : Contains(text, x)}

\* C6: map_category returns the label of the first rule, in the listed
\* order, that fires on the classified text, whatever later rules would say,
\* and "Other" exactly when no rule fires.
C6_FirstFiringRuleWins ==
    pc = "classified" =>
        /\ FiringRules # {} => category = RuleOrder[MinOf(FiringRules)][1]
        /\ (category = "Other") <=> (FiringRules = {})

\* C6 witness: two rules fire on an entry that is not all lower case, and
\* the label of the earlier one was returned.
C6_Witness ==
    /\ pc = "classified"
    /\ Cardinality(FiringRules) >= 2
    /\ whitelist_item # Lower(whitelist_item)
    /\ category = RuleOrder[MinOf(FiringRules)][1]
    /\ category # "Protein - Poultry"

-----------------------------------------------------------------------------
(* extract_nutrients and the extraction pass of main() *)

\* dict.get(key, default)
Get(item, key, default) == IF key \in DOMAIN item THEN item[key] ELSE default

\* dict.get(key): the value, or None
GetOpt(item, key) == IF key \in DOMAIN item THEN {item[key]} ELSE None

NUTRIENT_IDS == [calories |-> "208", protein |-> "203", carbs |-> "205", fat |-> "204"]

\* one pass of the loop body of extract_nutrients
SetNutrient(nutrients, nutrient) ==
    LET nutrient_number == Get(Get(nutrient, "nutrient", <<>>), "number", "")
        amount == Get(nutrient, "amount", None)
    IN  IF nutrient_number = NUTRIENT_IDS.calories THEN [nutrients EXCEPT !.calories = amount]
        ELSE IF nutrient_number = NUTRIENT_IDS.protein THEN [nutrients EXCEPT !.protein = amount]
        ELSE IF nutrient_number = NUTRIENT_IDS.carbs THEN [nutrients EXCEPT !.carbs = amount]
        ELSE IF nutrient_number = NUTRIENT_IDS.fat THEN [nutrients EXCEPT !.fat = amount]
        ELSE nutrients

RECURSIVE ExtractFrom(_, _, _)
ExtractFrom(food_nutrients, k, nutrients) ==
    IF k > Len(food_nutrients) THEN nutrients
    ELSE ExtractFrom(food_nutrients, k + 1, SetNutrient(nutrients, food_nutrients[k]))

extract_nutrients(food_item) ==
    ExtractFrom(Get(food_item, "foodNutrients", <<>>), 1,
                [calories |-> None, protein |-> None, carbs |-> None, fat |-> None])

\* whitelist_matches is a dict: its entries in insertion order, each
\* [key, food_item, score, description]
DictIndex(dict, key) ==
    IF \E i \in 1..Len(dict) : dict[i].key = key
    THEN CHOOSE i \in 1..Len(dict) : dict[i].key = key
    ELSE 0

DictSet(dict, entry) ==
    IF DictIndex(dict, entry.key) = 0 THEN Append(dict, entry)
    ELSE [dict EXCEPT ![DictIndex(dict, entry.key)] = entry]

\* mutant of ShouldStore: an equal score replaces the association too
ShouldStoreOnTie(dict, matched_item, score) ==
    \/ DictIndex(dict, matched_item) = 0
    \/ RatLeq(dict[DictIndex(dict, matched_item)].score, score)

\* matched_item not in whitelist_matches or score > whitelist_matches[matched_item][1]
ShouldStore(dict, matched_item, score) ==
    \/ DictIndex(dict, matched_item) = 0
    \/ RatLess(dict[DictIndex(dict, matched_item)].score, score)

\* the body of  if match_result:  for one record
StoreMatch(dict, matched, food_item, desc) ==
    IF extract_nutrients(food_item).calories = None THEN dict
    ELSE IF ShouldStore(dict, matched[1], matched[2])
    THEN DictSet(dict, [key |-> matched[1], food_item |-> food_item,
                        score |-> matched[2], description |-> desc])
    ELSE dict

\* the loop body of main() for one record, given what the Matcher returned
AfterMatch(dict, result, food_item, desc) ==
    IF result.value = None THEN dict
    ELSE StoreMatch(dict, CHOOSE m \in result.value : TRUE, food_item, desc)

\* the output item built from one entry of whitelist_matches
OutputItem(entry, nutrients) ==
    [name |-> entry.description,
     fdcId |-> GetOpt(entry.food_item, "fdcId"),
     category |-> map_category(entry.description, entry.key),
     calories |-> nutrients.calories,
     protein |-> nutrients.protein,
     carbs |-> nutrients.carbs,
     fat |-> nutrients.fat]

-----------------------------------------------------------------------------
(* SpecExtract: main() of habitpet_extractor.py on bounded inputs *)

\* most source records of one run
MaxFoods == 4

Kcal(amount) == [nutrient |-> [number |-> "208"], amount |-> amount]
Protein(amount) == [nutrient |-> [number |-> "203"], amount |-> amount]

\* source records: with and without a description, with calories (0
\* included), with a calories entry that has no amount, and with no calories
FoodItems ==
    {[description |-> "chicken and beans",
      foodNutrients |-> <<Protein({7}), Kcal({120})>>],
     [description |-> "beans, black", foodNutrients |-> <<Kcal({341})>>],
     [description |-> "beans, black", foodNutrients |-> <<Protein({21})>>],
     [fdcId |-> 167512, foodNutrients |-> <<Kcal({52})>>],
     [description |-> "Beans", fdcId |-> 173735, foodNutrients |-> <<Kcal(None)>>],
     [description |-> "Beans", foodNutrients |-> <<Kcal({0}), [amount |-> {1}]>>]}

\* the whitelist file, read as stripped, lower-cased, non-empty lines
ExtractVocabularies == {<<"beans">>, <<"beans", "chicken">>}

InitExtract ==
    /\ pc = "match_loop"
    /\ whitelist \in ExtractVocabularies
    /\ sr_legacy_data \in SeqsUpTo(FoodItems, MaxFoods)
    /\ idx = 0
    /\ description = "" /\ normalized = "" /\ match_result = Return(None)
    /\ whitelist_matches = <<>> /\ matched_foods = <<>>
    /\ IdleClassify /\ IdleAssign /\ IdleMerge

\* one pass of  for idx, food_item in enumerate(sr_legacy_data)
ProcessFood ==
    /\ pc = "match_loop"
    /\ idx < Len(sr_legacy_data)
    /\ description' = Get(sr_legacy_data[idx + 1], "description", "")
    /\ normalized' = normalize_text(description')
    /\ match_result' = match_whitelist_item(description', whitelist)
    /\ idx' = idx + 1
    /\ IF match_result'.raised
       THEN pc' = "crashed" /\ UNCHANGED whitelist_matches
       ELSE /\ pc' = pc
            /\ whitelist_matches' =
                  AfterMatch(whitelist_matches, match_result', sr_legacy_data[idx + 1],
                             description')
    /\ UNCHANGED <<whitelist, sr_legacy_data, matched_foods, classifyVars, assignVars,
                   mergeVars>>

EndMatchLoop ==
    /\ pc = "match_loop"
    /\ idx = Len(sr_legacy_data)
    /\ pc' = "convert"
    /\ UNCHANGED <<matchVars, extractVars, classifyVars, assignVars, mergeVars>>

\* one pass of  for matched_item, (food_item, score, description) in
\* whitelist_matches.items()
ConvertMatch ==
    /\ pc = "convert"
    /\ Len(matched_foods) < Len(whitelist_matches)
    /\ description' = whitelist_matches[Len(matched_foods) + 1].description
    /\ whitelist_item' = whitelist_matches[Len(matched_foods) + 1].key
    /\ category' = map_category(description', whitelist_item')
    /\ matched_foods' =
          Append(matched_foods,
                 OutputItem(whitelist_matches[Len(matched_foods) + 1],
                            extract_nutrients(whitelist_matches[Len(matched_foods) + 1].food_item)))
    /\ UNCHANGED <<pc, whitelist, normalized, match_result, sr_legacy_data, idx,
                   whitelist_matches,
                   assignVars, mergeVars>>

EndConvert ==
    /\ pc = "convert"
    /\ Len(matched_foods) = Len(whitelist_matches)
    /\ pc' = "done"
    /\ UNCHANGED <<matchVars, extractVars, classifyVars, assignVars, mergeVars>>

NextExtract == ProcessFood \/ EndMatchLoop \/ ConvertMatch \/ EndConvert

SpecExtract == InitExtract /\ [][NextExtract]_vars

-----------------------------------------------------------------------------
(* Claims about the extraction pass, checked under SpecExtract *)

\* for each processed record that carries a calories value, what the Matcher
\* returns for it ({<<entry, score>>} or None); None for the other records
CountedMatches ==
    SubSeq([i \in 1..idx |->
              IF extract_nutrients(sr_legacy_data[i]).calories = None THEN None
              ELSE match_whitelist_item(Get(sr_legacy_data[i], "description", ""),
                                        whitelist).value],
           1, idx)

\* the processed records that matched v and carry calories
Candidates(ms, v) == {i \in 1..Len(ms) : \E m \in ms[i] : m[1] = v}

ScoreIn(ms, i) == (CHOOSE m \in ms[i] : TRUE)[2]

\* the earliest of the candidates with the highest confidence
BestCandidate(ms, v) ==
    CHOOSE i \in Candidates(ms, v) :
        \A k \in Candidates(ms, v) :
            \/ RatLess(ScoreIn(ms, k), ScoreIn(ms, i))
            \/ ScoreIn(ms, k) = ScoreIn(ms, i) /\ i <= k

RetainedFor(ms, v) ==
    IF Candidates(ms, v) = {}
    THEN DictIndex(whitelist_matches, v) = 0
    ELSE /\ DictIndex(whitelist_matches, v) # 0
         /\ whitelist_matches[DictIndex(whitelist_matches, v)] =
               [key |-> v,
                food_item |-> sr_legacy_data[BestCandidate(ms, v)],
                score |-> ScoreIn(ms, BestCandidate(ms, v)),
                description |-> Get(sr_legacy_data[BestCandidate(ms, v)], "description", "")]

\* C5: at every point of the pass, whitelist_matches[v] is the processed
\* record with the highest confidence among those that matched v and carry
\* calories, the earliest of them on a tie; an entry with no such record has
\* no association, so a record without calories neither creates nor
\* displaces one.
C5_BestAssociationRetained ==
    pc \in {"match_loop", "convert", "done"} =>
        /\ \A k \in 1..Len(whitelist_matches) :
              \E i \in 1..Len(whitelist) : whitelist[i] = whitelist_matches[k].key
        /\ \A ms \in {CountedMatches} :
              \A i \in 1..Len(whitelist) : RetainedFor(ms, whitelist[i])

\* C5 witness: the pass is over; for "beans" a later record displaced an
\* earlier one of lower confidence, a still later record of equal confidence
\* did not displace it, and a record without calories that matched "beans"
\* with the highest confidence of all was skipped.
C5_Witness ==
    /\ pc = "convert"
    /\ \E ms \in {CountedMatches} :
          \E i, j, k \in Candidates(ms, "beans") :
              /\ i < j /\ j < k
              /\ RatLess(ScoreIn(ms, i), ScoreIn(ms, j))
              /\ ScoreIn(ms, j) = ScoreIn(ms, k)
              /\ sr_legacy_data[j] # sr_legacy_data[k]
              /\ whitelist_matches[DictIndex(whitelist_matches, "beans")].food_item
                    = sr_legacy_data[j]
    /\ \E n \in 1..idx :
          /\ extract_nutrients(sr_legacy_data[n]).calories = None
          /\ match_whitelist_item(Get(sr_legacy_data[n], "description", ""), whitelist).value
                = {<<"beans", <<100, 1>>>>}

\* C7 (as claimed): when the description of a classified record contains
\* both "beans" and "chicken", the category is "Protein - Poultry", whatever
\* the matched vocabulary entry is.
C7_BeansAndChickenIsPoultry ==
    (pc \in {"convert", "done"} /\ category # ""
        /\ Contains(Lower(description), "beans")
        /\ Contains(Lower(description), "chicken"))
        => category = "Protein - Poultry"

-----------------------------------------------------------------------------
(* assign_usda_categories.py: the lookup tables and assign_category *)

\* str(n) for a non-negative int
RECURSIVE IntStr(_)
IntStr(n) ==
    IF n < 10 THEN Char(DIGITS, n + 1)
    ELSE IntStr(n \div 10) \o Char(DIGITS, (n % 10) + 1)

\* str(item.get('fdcId', '')): an identifier is a JSON number {n} or null
FdcIdStr(item) ==
    IF "fdcId" \notin DOMAIN item THEN ""
    ELSE IF item.fdcId = None THEN "None"
    ELSE IntStr(CHOOSE n \in item.fdcId : TRUE)

\* dict[key] = value
Put(dict, key, value) ==
    [x \in DOMAIN dict \cup {key} |-> IF x = key THEN value ELSE dict[x]]

\* for row in category_data: ... categoryMap[cat_id] = cat_desc
RECURSIVE BuildCategoryMap(_, _, _)
BuildCategoryMap(rows, k, map) ==
    IF k > Len(rows) THEN map
    ELSE LET cat_id == Strip(Get(rows[k], "id", ""))
             cat_desc == Strip(Get(rows[k], "description", ""))
         IN  BuildCategoryMap(rows, k + 1,
                 IF cat_id # "" /\ cat_desc # "" THEN Put(map, cat_id, cat_desc) ELSE map)

\* for row in food_data: ... categoryByFdcId[fdc_id] = cat_id
RECURSIVE BuildCategoryByFdcId(_, _, _)
BuildCategoryByFdcId(rows, k, map) ==
    IF k > Len(rows) THEN map
    ELSE LET fdc_id == Strip(Get(rows[k], "fdc_id", ""))
             cat_id == Strip(Get(rows[k], "food_category_id", ""))
         IN  BuildCategoryByFdcId(rows, k + 1,
                 IF fdc_id # "" /\ cat_id # "" THEN Put(map, fdc_id, cat_id) ELSE map)

\* for food in fndds_foods: ... fndds_category_by_fdc_id[fdc_id] = cat_desc
\* (wweiaFoodCategory, when present, is a JSON object in every record here)
RECURSIVE BuildFnddsCategory(_, _, _)
BuildFnddsCategory(foods, k, map) ==
    IF k > Len(foods) THEN map
    ELSE LET fdc_id == FdcIdStr(foods[k])
             wweia_cat == Get(foods[k], "wweiaFoodCategory", <<>>)
             cat_desc == Strip(Get(wweia_cat, "wweiaFoodCategoryDescription", ""))
         IN  BuildFnddsCategory(foods, k + 1,
                 IF fdc_id # "" /\ cat_desc # "" THEN Put(map, fdc_id, cat_desc) ELSE map)

\* mutant of assign_category: the two-hop lookup is tried before the direct one
assign_category_two_hop_first(item) ==
    LET fdc_id == FdcIdStr(item)
    IN  IF /\ fdc_id \in DOMAIN categoryByFdcId
           /\ categoryByFdcId[fdc_id] \in DOMAIN categoryMap
        THEN categoryMap[categoryByFdcId[fdc_id]]
        ELSE IF fdc_id \in DOMAIN fndds_category_by_fdc_id
        THEN fndds_category_by_fdc_id[fdc_id]
        ELSE "Uncategorized"

assign_category(item) ==
    LET fdc_id == FdcIdStr(item)
    IN  IF fdc_id \in DOMAIN fndds_category_by_fdc_id
        THEN fndds_category_by_fdc_id[fdc_id]
        ELSE IF /\ fdc_id \in DOMAIN categoryByFdcId
                /\ categoryByFdcId[fdc_id] \in DOMAIN categoryMap
        THEN categoryMap[categoryByFdcId[fdc_id]]
        ELSE "Uncategorized"

\* item_copy = item.copy(); item_copy['category'] = assign_category(item)
Categorized(item) == Put(item, "category", assign_category(item))

-----------------------------------------------------------------------------
(* SpecAssign: sections 2 and 3 of assign_usda_categories.py on bounded     *)
(* inputs                                                                   *)

\* most rows of each lookup file
MaxRows == 1
\* most records of each FNDDS collection that is categorized
MaxCategorize == 1

\* food_category.csv rows: padded, with a blank description, without one
CategoryRows ==
    {[id |-> " 9 ", description |-> " Fruits "],
     [id |-> "9", description |-> "  "],
     [id |-> "4"]}

\* food.csv rows: a group that may have a description, one that has none,
\* and a blank group id
FoodRows ==
    {[fdc_id |-> "7", food_category_id |-> " 9"],
     [fdc_id |-> " 8 ", food_category_id |-> "5"],
     [fdc_id |-> "12", food_category_id |-> " "]}

\* FNDDS survey foods: with a description, with a blank one, without an
\* identifier, with a null identifier
FnddsFoods ==
    {[fdcId |-> {7}, wweiaFoodCategory |-> [wweiaFoodCategoryDescription |-> " Apples "]],
     [fdcId |-> {8}, wweiaFoodCategory |-> [wweiaFoodCategoryDescription |-> ""]],
     [wweiaFoodCategory |-> [wweiaFoodCategoryDescription |-> "Milk"]],
     [fdcId |-> None, wweiaFoodCategory |-> [wweiaFoodCategoryDescription |-> "Water"]]}

\* records to categorize: identifiers 7, 8, 12, null, and none at all
AssignItems ==
    {[name |-> "apple", fdcId |-> {7}],
     [name |-> "pear", fdcId |-> {8}, category |-> "Other"],
     [name |-> "plum", fdcId |-> {12}],
     [name |-> "tap water", fdcId |-> None],
     [name |-> "mystery"]}

InitAssign ==
    /\ pc = "category_map"
    /\ category_data \in SeqsUpTo(CategoryRows, MaxRows)
    /\ food_data \in SeqsUpTo(FoodRows, MaxRows)
    /\ fndds_foods \in SeqsUpTo(FnddsFoods, MaxRows)
    /\ fndds_added \in SeqsUpTo(AssignItems, MaxCategorize)
    /\ fndds_manual \in SeqsUpTo(AssignItems, MaxCategorize)
    /\ categoryMap = <<>> /\ categoryByFdcId = <<>> /\ fndds_category_by_fdc_id = <<>>
    /\ IdleMatch /\ IdleExtract /\ IdleClassify /\ IdleMerge

LoadCategoryMap ==
    /\ pc = "category_map"
    /\ categoryMap' = BuildCategoryMap(category_data, 1, <<>>)
    /\ pc' = "category_by_fdc_id"
    /\ UNCHANGED <<matchVars, extractVars, classifyVars, mergeVars, category_data,
                   food_data, fndds_foods, categoryByFdcId, fndds_category_by_fdc_id,
                   fndds_added, fndds_manual>>

LoadCategoryByFdcId ==
    /\ pc = "category_by_fdc_id"
    /\ categoryByFdcId' = BuildCategoryByFdcId(food_data, 1, <<>>)
    /\ pc' = "fndds_category"
    /\ UNCHANGED <<matchVars, extractVars, classifyVars, mergeVars, category_data,
                   food_data, fndds_foods, categoryMap, fndds_category_by_fdc_id,
                   fndds_added, fndds_manual>>

LoadFnddsCategory ==
    /\ pc = "fndds_category"
    /\ fndds_category_by_fdc_id' = BuildFnddsCategory(fndds_foods, 1, <<>>)
    /\ pc' = "added"
    /\ UNCHANGED <<matchVars, extractVars, classifyVars, mergeVars, category_data,
                   food_data, fndds_foods, categoryMap, categoryByFdcId,
                   fndds_added, fndds_manual>>

\* one pass of  for item in fndds_added
CategorizeAdded ==
    /\ pc = "added"
    /\ Len(fndds_added_categorized) < Len(fndds_added)
    /\ fndds_added_categorized' =
          Append(fndds_added_categorized,
                 Categorized(fndds_added[Len(fndds_added_categorized) + 1]))
    /\ UNCHANGED <<pc, matchVars, extractVars, classifyVars, assignVars, local_foods,
                   fndds_manual_categorized, all_foods, seen_keys, master_foods, pos>>

EndAdded ==
    /\ pc = "added"
    /\ Len(fndds_added_categorized) = Len(fndds_added)
    /\ pc' = "manual"
    /\ UNCHANGED <<matchVars, extractVars, classifyVars, assignVars, mergeVars>>

\* one pass of  for item in fndds_manual
CategorizeManual ==
    /\ pc = "manual"
    /\ Len(fndds_manual_categorized) < Len(fndds_manual)
    /\ fndds_manual_categorized' =
          Append(fndds_manual_categorized,
                 Categorized(fndds_manual[Len(fndds_manual_categorized) + 1]))
    /\ UNCHANGED <<pc, matchVars, extractVars, classifyVars, assignVars, local_foods,
                   fndds_added_categorized, all_foods, seen_keys, master_foods, pos>>

EndManual ==
    /\ pc = "manual"
    /\ Len(fndds_manual_categorized) = Len(fndds_manual)
    /\ pc' = "categorized"
    /\ UNCHANGED <<matchVars, extractVars, classifyVars, assignVars, mergeVars>>

NextAssign ==
    \/ LoadCategoryMap \/ LoadCategoryByFdcId \/ LoadFnddsCategory
    \/ CategorizeAdded \/ EndAdded \/ CategorizeManual \/ EndManual

SpecAssign == InitAssign /\ [][NextAssign]_vars

-----------------------------------------------------------------------------
(* Claims about assign_category, checked under SpecAssign *)

\* the category the precedence of the claim gives an identifier
ByPrecedence(id) ==
    IF id \in DOMAIN fndds_category_by_fdc_id THEN fndds_category_by_fdc_id[id]
    ELSE IF id \in DOMAIN categoryByFdcId /\ categoryByFdcId[id] \in DOMAIN categoryMap
    THEN categoryMap[categoryByFdcId[id]]
    ELSE "Uncategorized"

\* copy is item with its category set to what the precedence gives, and
\* nothing else changed
ResolvedAs(item, copy) ==
    /\ DOMAIN copy = DOMAIN item \cup {"category"}
    /\ \A f \in DOMAIN item \ {"category"} : copy[f] = item[f]
    /\ copy.category = ByPrecedence(FdcIdStr(item))
    /\ "fdcId" \notin DOMAIN item => copy.category = "Uncategorized"

\* C8: every categorized record carries the description of the direct table
\* when its identifier is there, else the description of its group when the
\* identifier has a group and the group a description, else "Uncategorized"
\* (so for a record without identifier); the pass never stops short of the
\* end of the two collections.
C8_AssignByPrecedence ==
    pc \in {"added", "manual", "categorized"} =>
        /\ Len(fndds_added_categorized) <= Len(fndds_added)
        /\ Len(fndds_manual_categorized) <= Len(fndds_manual)
        /\ \A i \in 1..Len(fndds_added_categorized) :
              ResolvedAs(fndds_added[i], fndds_added_categorized[i])
        /\ \A i \in 1..Len(fndds_manual_categorized) :
              ResolvedAs(fndds_manual[i], fndds_manual_categorized[i])
        /\ pc = "categorized" =>
              /\ Len(fndds_added_categorized) = Len(fndds_added)
              /\ Len(fndds_manual_categorized) = Len(fndds_manual)

\* C8 witness: a record whose identifier is in the direct table and also has
\* a group with another description got the direct one, and a record without
\* identifier got "Uncategorized".
C8_Witness ==
    /\ pc = "categorized"
    /\ \E i \in 1..Len(fndds_added) :
          /\ FdcIdStr(fndds_added[i]) \in DOMAIN fndds_category_by_fdc_id
          /\ FdcIdStr(fndds_added[i]) \in DOMAIN categoryByFdcId
          /\ categoryByFdcId[FdcIdStr(fndds_added[i])] \in DOMAIN categoryMap
          /\ categoryMap[categoryByFdcId[FdcIdStr(fndds_added[i])]] = "Fruits"
          /\ fndds_added_categorized[i].category = "Apples"
    /\ \E i \in 1..Len(fndds_manual) :
          /\ "fdcId" \notin DOMAIN fndds_manual[i]
          /\ fndds_manual_categorized[i].category = "Uncategorized"

-----------------------------------------------------------------------------
(* assign_usda_categories.py: merge, deduplication and sort *)

\* unique_key of the dedup loop
unique_key(item) ==
    LET key == Lower(Strip(Get(item, "searchKey", "")))
    IN  IF key = "" THEN Lower(Strip(Get(item, "name", ""))) ELSE key

get_sort_key(item) ==
    LET key == Lower(Strip(Get(item, "searchKey", "")))
    IN  IF key = "" THEN Lower(Strip(Get(item, "name", ""))) ELSE key

\* mutant of DedupAppend: a record with an empty key is dropped
DedupAppendKeyed(master, seen, item) ==
    LET key == unique_key(item)
    IN  IF key # "" /\ key \notin seen THEN Append(master, item)
        ELSE master

\* master_foods after the body of the dedup loop for one record
DedupAppend(master, seen, item) ==
    LET key == unique_key(item)
    IN  IF key # "" /\ key \notin seen THEN Append(master, item)
        ELSE IF key = "" THEN Append(master, item)
        ELSE master

\* seen_keys after the body of the dedup loop for one record
DedupSeen(seen, item) ==
    LET key == unique_key(item)
    IN  IF key # "" /\ key \notin seen THEN seen \cup {key} ELSE seen

\* list.sort computes the key of every record once
SortKeys(items) ==
    SubSeq([i \in 1..Len(items) |-> get_sort_key(items[i])], 1, Len(items))

\* mutant of InsertByKey: the record goes before the records of equal key
InsertBeforeEqual(order, k, keys) ==
    LET n == Cardinality({i \in 1..Len(order) : StrLess(keys[order[i]], keys[k])})
    IN  SubSeq(order, 1, n) \o <<k>> \o SubSeq(order, n + 1, Len(order))

\* a stable sort puts record k after the records whose key is not greater;
\* order lists the positions of the records sorted so far
InsertByKey(order, k, keys) ==
    LET n == Cardinality({i \in 1..Len(order) : ~StrLess(keys[k], keys[order[i]])})
    IN  SubSeq(order, 1, n) \o <<k>> \o SubSeq(order, n + 1, Len(order))

RECURSIVE SortFrom(_, _, _)
SortFrom(keys, k, order) ==
    IF k > Len(keys) THEN order
    ELSE SortFrom(keys, k + 1, InsertByKey(order, k, keys))

\* mutant of ListSort: ascending, the records of equal key in reverse order
ListSortTiesReversed(items) ==
    LET n == Len(items)
        reversed == [i \in 1..n |-> items[n + 1 - i]]
        order == SortFrom(SortKeys(reversed), 1, <<>>)
    IN  [i \in 1..n |-> reversed[order[i]]]

\* list.sort(key=get_sort_key): stable, ascending
ListSort(items) ==
    LET order == SortFrom(SortKeys(items), 1, <<>>)
    IN  [i \in 1..Len(items) |-> items[order[i]]]

-----------------------------------------------------------------------------
(* SpecMerge: section 5 of assign_usda_categories.py on bounded inputs *)

\* most records of the three collections together
MaxItems == 4

\* records with a searchKey, with a name only, with blank fields, with none
MergeItems ==
    {[name |-> "Fuji", searchKey |-> " Apple ", category |-> "Fruits"],
     [name |-> " APPLE", category |-> "Uncategorized"],
     [name |-> "Bun", searchKey |-> "  ", category |-> "Grains & Starches"],
     [category |-> "Uncategorized"],
     [name |-> " ", searchKey |-> "", category |-> "Other"]}

InitMerge ==
    /\ pc = "concat"
    /\ \E all \in SeqsUpTo(MergeItems, MaxItems) :
          \E a \in 0..Len(all) : \E b \in a..Len(all) :
              /\ local_foods = SubSeq(all, 1, a)
              /\ fndds_added_categorized = SubSeq(all, a + 1, b)
              /\ fndds_manual_categorized = SubSeq(all, b + 1, Len(all))
    /\ all_foods = <<>> /\ seen_keys = {} /\ master_foods = <<>> /\ pos = 0
    /\ IdleMatch /\ IdleExtract /\ IdleClassify /\ IdleAssign

\* all_foods = []; three extend calls; seen_keys = {}; master_foods = []
Concat ==
    /\ pc = "concat"
    /\ all_foods' = local_foods \o fndds_added_categorized \o fndds_manual_categorized
    /\ seen_keys' = {} /\ master_foods' = <<>> /\ pos' = 0
    /\ pc' = "dedup"
    /\ UNCHANGED <<matchVars, extractVars, classifyVars, assignVars, local_foods,
                   fndds_added_categorized, fndds_manual_categorized>>

\* one pass of  for item in all_foods
DedupStep ==
    /\ pc = "dedup"
    /\ pos < Len(all_foods)
    /\ master_foods' = DedupAppend(master_foods, seen_keys, all_foods[pos + 1])
    /\ seen_keys' = DedupSeen(seen_keys, all_foods[pos + 1])
    /\ pos' = pos + 1
    /\ UNCHANGED <<pc, matchVars, extractVars, classifyVars, assignVars, local_foods,
                   fndds_added_categorized, fndds_manual_categorized, all_foods>>

\* master_foods.sort(key=get_sort_key)
Sort ==
    /\ pc = "dedup"
    /\ pos = Len(all_foods)
    /\ master_foods' = ListSort(master_foods)
    /\ pc' = "done"
    /\ UNCHANGED <<matchVars, extractVars, classifyVars, assignVars, local_foods,
                   fndds_added_categorized, fndds_manual_categorized, all_foods,
                   seen_keys, pos>>

NextMerge == Concat \/ DedupStep \/ Sort

SpecMerge == InitMerge /\ [][NextMerge]_vars

-----------------------------------------------------------------------------
(* Claims about the merge, checked under SpecMerge *)

\* the derived key of the claims: trimmed, lower-cased searchKey, else name
DerivedKey(item) ==
    LET search == Lower(Strip(Get(item, "searchKey", "")))
    IN  IF search # "" THEN search ELSE Lower(Strip(Get(item, "name", "")))

DerivedKeys(items) ==
    SubSeq([i \in 1..Len(items) |-> DerivedKey(items[i])], 1, Len(items))

\* the records of items, whose derived keys are keys, that the dedup policy
\* keeps, in order: those with an empty key and the first with each other key
RECURSIVE FirstOfEachKey(_, _, _)
FirstOfEachKey(items, keys, k) ==
    IF k > Len(items) THEN <<>>
    ELSE (IF keys[k] = "" \/ \A j \in 1..(k - 1) : keys[j] # keys[k]
          THEN <<items[k]>> ELSE <<>>) \o FirstOfEachKey(items, keys, k + 1)

Occurrences(items, r) == Cardinality({i \in 1..Len(items) : items[i] = r})

SameRecords(items, others) ==
    /\ Len(items) = Len(others)
    /\ \A i \in 1..Len(items) : Occurrences(items, items[i]) = Occurrences(others, items[i])

\* C9: the input is concatenated in the order local, FNDDS added, FNDDS
\* manual; after every pass of the dedup loop master_foods holds, in input
\* order, the records seen so far that have an empty key or are the first
\* with their key, and the finished catalog holds exactly those records.
C9_FirstOfEachKeyKept ==
    pc \in {"dedup", "done"} =>
        /\ all_foods = local_foods \o fndds_added_categorized \o fndds_manual_categorized
        /\ \A keys \in {DerivedKeys(SubSeq(all_foods, 1, pos))} :
            \A kept \in {FirstOfEachKey(SubSeq(all_foods, 1, pos), keys, 1)} :
              /\ pc = "dedup" => master_foods = kept
              /\ pc = "done" => pos = Len(all_foods) /\ SameRecords(master_foods, kept)

\* C9 witness: the dedup loop is over; a local record and an FNDDS added
\* record had the same key and only the local one was kept; two different
\* records without a key were both kept.
C9_Witness ==
    /\ pc = "dedup" /\ pos = Len(all_foods)
    /\ \E i \in 1..Len(local_foods) : \E j \in 1..Len(fndds_added_categorized) :
          /\ DerivedKey(local_foods[i]) # ""
          /\ DerivedKey(local_foods[i]) = DerivedKey(fndds_added_categorized[j])
          /\ local_foods[i] # fndds_added_categorized[j]
          /\ Occurrences(master_foods, local_foods[i]) = 1
          /\ Occurrences(master_foods, fndds_added_categorized[j]) = 0
    /\ \E i, j \in 1..Len(master_foods) :
          /\ i # j
          /\ master_foods[i] # master_foods[j]
          /\ DerivedKey(master_foods[i]) = ""
          /\ DerivedKey(master_foods[j]) = ""

\* the records of items, whose derived keys are keys, that have the key
RECURSIVE WithKey(_, _, _, _)
WithKey(items, keys, k, key) ==
    IF k > Len(items) THEN <<>>
    ELSE (IF keys[k] = key THEN <<items[k]>> ELSE <<>>) \o WithKey(items, keys, k + 1, key)

\* every record with the key keeps the place it has among the input records
\* with that key that the dedup policy keeps
InInputOrder(sorted, sortedKeys, input, inputKeys) ==
    \A i \in 1..Len(sorted) :
        \A kept \in {FirstOfEachKey(input, inputKeys, 1)} :
            WithKey(sorted, sortedKeys, 1, sortedKeys[i])
                = WithKey(kept, DerivedKeys(kept), 1, sortedKeys[i])

\* C10: the sort key is the dedup key; the finished catalog is in
\* non-decreasing order of it, and the records of equal key are in the order
\* they have in the concatenated input.
C10_SortedAndStable ==
    pc = "done" =>
        /\ \A i \in 1..Len(all_foods) :
              \A key \in {DerivedKey(all_foods[i])} :
                  get_sort_key(all_foods[i]) = key /\ unique_key(all_foods[i]) = key
        /\ \A keys \in {DerivedKeys(master_foods)} :
              /\ \A i \in 1..(Len(keys) - 1) : ~StrLess(keys[i + 1], keys[i])
              /\ InInputOrder(master_foods, keys, all_foods, DerivedKeys(all_foods))

\* C10 witness: the sort moved records; the catalog has three different
\* keys, the empty one twice, on two different records that kept their input
\* order.
C10_Witness ==
    /\ pc = "done"
    /\ Len(master_foods) = 4
    /\ master_foods[1] # master_foods[2]
    /\ \A keys \in {DerivedKeys(master_foods)} :
          /\ Cardinality({keys[i] : i \in 1..4}) = 3
          /\ keys[1] = "" /\ keys[2] = ""
    /\ \A keys \in {DerivedKeys(all_foods)} :
          /\ WithKey(all_foods, keys, 1, "") = <<master_foods[1], master_foods[2]>>
          /\ master_foods # FirstOfEachKey(all_foods, keys, 1)

-----------------------------------------------------------------------------
(* SpecRemerge: section 5 run once, then run again with its output as the   *)
(* only input collection                                                    *)

\* the dedup loop from record k on: <<master_foods, seen_keys>> at its end
RECURSIVE DedupFrom(_, _, _, _)
DedupFrom(items, k, master, seen) ==
    IF k > Len(items) THEN <<master, seen>>
    ELSE DedupFrom(items, k + 1, DedupAppend(master, seen, items[k]),
                   DedupSeen(seen, items[k]))

\* a whole second run: local_foods is the catalog of the first run, the two
\* FNDDS collections are empty
Remerge ==
    /\ pc = "done"
    /\ local_foods' = master_foods
    /\ fndds_added_categorized' = <<>> /\ fndds_manual_categorized' = <<>>
    /\ all_foods' = local_foods' \o fndds_added_categorized' \o fndds_manual_categorized'
    /\ seen_keys' = DedupFrom(all_foods', 1, <<>>, {})[2]
    /\ master_foods' = ListSort(DedupFrom(all_foods', 1, <<>>, {})[1])
    /\ pos' = Len(all_foods')
    /\ pc' = "done_again"
    /\ UNCHANGED <<matchVars, extractVars, classifyVars, assignVars>>

NextRemerge == Concat \/ DedupStep \/ Sort \/ Remerge

SpecRemerge == InitMerge /\ [][NextRemerge]_vars

\* C11: the catalog of the second run is its input, the catalog of the first
\* run, record for record and in the same order.
C11_MergerIdempotent ==
    pc = "done_again" => master_foods = local_foods

\* C11 witness: the second run is over on a catalog of four records with
\* three different keys, two different records of them with the empty key.
C11_Witness ==
    /\ pc = "done_again"
    /\ Len(local_foods) = 4
    /\ local_foods[1] # local_foods[2]
    /\ \A keys \in {DerivedKeys(local_foods)} :
          /\ keys[1] = "" /\ keys[2] = ""
          /\ Cardinality({keys[i] : i \in 1..4}) = 3
    /\ master_foods = local_foods

-----------------------------------------------------------------------------
(* Claims about the fuzzy fallback of the Matcher, checked under SpecMatch *)

\* the score every scorer, in the order tried, gives every vocabulary entry
\* for the description of the call at hand
FuzzyScores ==
    SubSeq([s \in 1..Len(Scorers) |->
              ScoreAll(Scorers[s], normalize_text(description), whitelist)],
           1, Len(Scorers))

\* the <<scorer, entry>> pairs whose score reaches the cutoff
Reaching(scores) ==
    {q \in (1..Len(Scorers)) \X (1..Len(whitelist)) :
        RatLeq(<<ScoreCutoff, 1>>, scores[q[1]][q[2]])}

\* w has the highest score of the pairs that reach the cutoff, and is the one
\* of the earliest scorer, and for that scorer the earliest entry, that has it
Winner(scores, w) ==
    \A q \in Reaching(scores) :
        \/ RatLess(scores[q[1]][q[2]], scores[w[1]][w[2]])
        \/ /\ scores[q[1]][q[2]] = scores[w[1]][w[2]]
           /\ (w[1] < q[1] \/ (w[1] = q[1] /\ w[2] <= q[2]))

\* C12: when no entry satisfies strategies 1-3, the call returns the entry
\* and the score of the highest-scoring <<scorer, entry>> pair among those
\* that reach 60, the earliest scorer winning a tie; it returns None exactly
\* when no pair reaches 60, as with an empty vocabulary.
C12_FuzzyBestOfThreeScorers ==
    (pc = "returned" /\ Tier1 = {} /\ Tier2 = {} /\ Tier3 = {}) =>
        \A scores \in {FuzzyScores} :
            /\ ~match_result.raised
            /\ (match_result.value = None) <=> (Reaching(scores) = {})
            /\ \A w \in Reaching(scores) :
                  Winner(scores, w) =>
                      match_result.value = {<<whitelist[w[2]], scores[w[1]][w[2]]>>}

\* C12 witness: no entry satisfies strategies 1-3; the partial scorer gives
\* the first entry the score the token-set scorer gives the second one, each
\* being the scorer's best, and the call returned the second entry, the best
\* of the scorer tried first.
C12_Witness ==
    /\ pc = "returned" /\ Tier1 = {} /\ Tier2 = {} /\ Tier3 = {}
    /\ Len(whitelist) = 2
    /\ \A scores \in {FuzzyScores} :
          /\ BestIndex(scores[1]) = 2
          /\ BestIndex(scores[2]) = 1
          /\ scores[1][2] = scores[2][1]
          /\ RatLess(scores[3][1], scores[1][2])
          /\ match_result.value = {<<whitelist[2], scores[1][2]>>}
    /\ whitelist[1] # whitelist[2]

-----------------------------------------------------------------------------
(* Claims about the substring tier of the Matcher, checked under SpecMatch *)

\* the entry that decides a call in which strategy 3 produces the result:
\* the first entry that contains the normalized description or is in it
SubstringEntry == normalize_text(whitelist[MinOf(Tier3)])

\* of the normalized description and SubstringEntry, the one inside the other
ContainedSide ==
    IF Contains(normalize_text(description), SubstringEntry) THEN SubstringEntry
    ELSE normalize_text(description)

\* min(len(contained side) / len(normalized description) * 90, 90)
ClaimedSubstringScore ==
    RatMin(Rat(Len(ContainedSide) * 90, Len(normalize_text(description))), <<90, 1>>)

\* C13: when strategy 3 produces the result, the call does not raise and its
\* confidence is min(len(contained side) / len(normalized description) * 90,
\* 90): above 0, at most 90, 90 when the entry contains the description, and
\* below the 95 and 100 of strategies 2 and 1.
C13_SubstringScoreCapped ==
    (pc = "returned" /\ Tier1 = {} /\ Tier2 = {} /\ Tier3 # {}) =>
        /\ ~match_result.raised
        /\ Len(normalize_text(description)) > 0
        /\ \A score \in {ClaimedSubstringScore} :
              /\ match_result.value = {<<whitelist[MinOf(Tier3)], score>>}
              /\ RatLess(<<0, 1>>, score)
              /\ RatLeq(score, <<90, 1>>)
              /\ Contains(SubstringEntry, normalize_text(description))
                    => score = <<90, 1>>
              /\ RatLess(score, <<95, 1>>) /\ RatLess(score, <<100, 1>>)

\* C13 witness: strategy 3 produced the result on an entry that contains the
\* description and is more than one character longer, with confidence 90.
C13_Witness ==
    /\ pc = "returned" /\ Tier1 = {} /\ Tier2 = {} /\ Tier3 # {}
    /\ Contains(SubstringEntry, normalize_text(description))
    /\ Len(SubstringEntry) > Len(normalize_text(description)) + 1
    /\ match_result.value = {<<whitelist[MinOf(Tier3)], <<90, 1>>>>}

-----------------------------------------------------------------------------
(* SpecNormalize: one call of normalize_text on any text of the bounded set *)

\* longest text handed to normalize_text
MaxTextLen == 3

\* a lower-case letter, an upper-case letter, a digit, the underscore,
\* whitespace and punctuation
TextAlphabet == {"a", "Z", "7", "_", " ", "-"}

InitNormalize ==
    /\ pc = "normalize"
    /\ description \in StringsUpTo(TextAlphabet, MaxTextLen)
    /\ normalized = ""
    /\ whitelist = <<>> /\ match_result = Return(None)
    /\ IdleExtract /\ IdleClassify /\ IdleAssign /\ IdleMerge

\* normalize_text(description)
CallNormalize ==
    /\ pc = "normalize"
    /\ normalized' = normalize_text(description)
    /\ pc' = "normalized"
    /\ UNCHANGED <<whitelist, description, match_result, extractVars, classifyVars,
                   assignVars, mergeVars>>

NextNormalize == CallNormalize

SpecNormalize == InitNormalize /\ [][NextNormalize]_vars

-----------------------------------------------------------------------------
(* Claims about normalize_text, checked under SpecNormalize *)

IsLetter(c) == c \in CharsOf(LOWER) \cup CharsOf(UPPER)
IsDigit(c) == c \in CharsOf(DIGITS)

\* s with every character that is not a letter, digit or whitespace replaced
\* by one space
RECURSIVE OnlyLettersDigitsSpaces(_)
OnlyLettersDigitsSpaces(s) ==
    IF s = "" THEN ""
    ELSE (IF IsLetter(Char(s, 1)) \/ IsDigit(Char(s, 1)) \/ IsSpace(Char(s, 1))
          THEN Char(s, 1) ELSE " ") \o OnlyLettersDigitsSpaces(Tail(s))

\* C14 (as claimed): normalize_text gives the lower-cased text with every
\* character that is not a letter, digit or whitespace replaced by a space,
\* trimmed; the result has no upper-case letter, no character other than
\* letters, digits and whitespace, no whitespace at either end, and
\* normalizing it again changes nothing.
C14_NormalFormAsClaimed ==
    pc = "normalized" =>
        /\ normalized = Strip(OnlyLettersDigitsSpaces(Lower(description)))
        /\ \A i \in 1..Len(normalized) :
              /\ Char(normalized, i) \notin CharsOf(UPPER)
              /\ \/ IsLetter(Char(normalized, i))
                 \/ IsDigit(Char(normalized, i))
                 \/ IsSpace(Char(normalized, i))
        /\ normalized # "" =>
              /\ ~IsSpace(Char(normalized, 1))
              /\ ~IsSpace(Char(normalized, Len(normalized)))
        /\ normalize_text(normalized) = normalized

=============================================================================
